---- MODULE Spec2Model ----
(***************************************************************************)
(* dev-tracker: event ingestion and aggregation.                           *)
(*                                                                         *)
(* The Cloudflare Worker (src/workers/src/index.ts) keeps five D1 tables   *)
(* (src/unnamed/part_000).  Every `await c.env.DB.prepare(..).run()` is    *)
(* one atomic SQL statement; between two awaits of one handler any other   *)
(* request may run, so a handler with several statements is a sequence of  *)
(* steps and the requests that are between two statements are kept in      *)
(* `inflight`.                                                             *)
(*                                                                         *)
(* Representation:                                                         *)
(*  - a table with a UNIQUE NOT NULL text column is a function from the    *)
(*    stored values of that column to the rest of the row;                 *)
(*  - a table without such a column is a bag of rows (the AUTOINCREMENT id *)
(*    only tells equal rows apart);                                        *)
(*  - total_dev_hours is kept as a number of seconds, that is in units of  *)
(*    1/SecondsPerHour hour, so that (ended_at - started_at) / 3600 is     *)
(*    exact;                                                               *)
(*  - a date 'YYYY-MM-DD' is the number of the UTC day since the epoch.    *)
(***************************************************************************)
EXTENDS Integers, FiniteSets, Sequences, Bags, TLC

\* ------------------------------------------------------------------------
\* Bounds and input domains
\* ------------------------------------------------------------------------

\* Number of write requests the Worker receives in one behaviour.
MaxRequests == 3

\* Number of track.sh commands a behaviour of the local tracker runs.
MaxCommands == 4

SecondsPerHour == 3600
SecondsPerDay  == 86400

\* SQL NULL / JSON null / a missing body field in a numeric position.
NULL == 0 - 1
\* SQL NULL / JSON null / a missing body field in a text position.
NullText == "NULL"

SessionIds == {"s1"}
Repos      == {"r1", "r2"}
ApiKeys    == {"k1", "k2"}
Hashes     == {"h1", "h2"}
ToolNames  == {"Read"}
EventTypes == {"start", "end"}

\* 01:00 and 02:00 of day 0, 01:00 of day 1.
Timestamps == {SecondsPerHour, 2 * SecondsPerHour, SecondsPerDay + SecondsPerHour}

\* ------------------------------------------------------------------------
\* JavaScript and SQL helpers
\* ------------------------------------------------------------------------

\* `!x` of index.ts for a numeric body field: undefined, null and 0 are falsy.
FalsyNum(x) == x = NULL \/ x = 0

\* `!x` of index.ts for a text body field: undefined and null are falsy.
FalsyText(x) == x = NullText

\* `x || d` for a numeric x
OrDefault(x, d) == IF FalsyNum(x) THEN d ELSE x

\* new Date(ts * 1000).toISOString().split('T')[0]
DateOf(ts) == ts \div SecondsPerDay

\* (ended_at - started_at) / 3600, in units of 1/SecondsPerHour hour
HoursOf(started_at, ended_at) == ended_at - started_at

\* The bag B after `UPDATE .. SET` maps every row r to f[r].
BagUpdate(B, f) ==
    LET img == {f[r] : r \in DOMAIN B}
        n(x) == LET pre == {r \in DOMAIN B : f[r] = x}
                    RECURSIVE Sum(_)
                    Sum(S) == IF S = {} THEN 0
                              ELSE LET r == CHOOSE r \in S : TRUE
                                   IN  B[r] + Sum(S \ {r})
                IN  Sum(pre)
    IN  [x \in img |-> n(x)]

\* SUM(column) over the rows of the bag B that are in S.
RECURSIVE SumColumn(_, _, _)
SumColumn(B, S, column) ==
    IF S = {} THEN 0
    ELSE LET r == CHOOSE x \in S : TRUE
         IN  B[r] * r[column] + SumColumn(B, S \ {r}, column)

\* SELECT SUM(column) FROM daily_summaries WHERE date = .. AND repo_path = ..
\* (the totals the read endpoints report for one day and repository)
Total(ds, date, repo_path, column) ==
    SumColumn(ds, {r \in DOMAIN ds : r.date = date /\ r.repo_path = repo_path}, column)

VARIABLES
    sessions,          \* sessions table: session_id -> row
    tool_events,       \* tool_events table: bag of rows
    commits,           \* commits table: commit_hash -> row
    project_mappings,  \* project_mappings table: repo_path -> row
    daily_summaries,   \* daily_summaries table: bag of rows
    inflight,          \* requests between two statements of their handler
    nreq,              \* number of requests received
    mergeLog,          \* history: one entry per daily_summaries upsert executed
    fkEnforced         \* whether the database enforces FOREIGN KEY clauses

vars == <<sessions, tool_events, commits, project_mappings, daily_summaries,
          inflight, nreq, mergeLog, fkEnforced>>

tables == <<sessions, tool_events, commits, project_mappings, daily_summaries>>

Init ==
    /\ sessions = <<>>
    /\ tool_events = EmptyBag
    /\ commits = <<>>
    /\ project_mappings = <<>>
    /\ daily_summaries = EmptyBag
    /\ inflight = EmptyBag
    /\ nreq = 0
    /\ mergeLog = EmptyBag
    /\ fkEnforced \in BOOLEAN

\* ------------------------------------------------------------------------
\* Rows
\* ------------------------------------------------------------------------

\* A row of sessions as INSERT .. (session_id, repo_path, project_api_key,
\* started_at, status) VALUES (?, ?, ?, ?, 'active') creates it: the columns
\* not listed take their defaults.
NewSession(repo_path, project_api_key, started_at) ==
    [repo_path |-> repo_path, project_api_key |-> project_api_key,
     started_at |-> started_at, ended_at |-> NULL,
     total_tool_calls |-> 0, status |-> "active"]

\* UNIQUE(date, repo_path, user_id) of daily_summaries.  SQLite: two rows
\* conflict on a UNIQUE index iff all indexed columns are equal and none of
\* them is NULL (NULLs are distinct from each other); date is NOT NULL.
SummaryConflict(a, b) ==
    /\ a.date = b.date
    /\ a.repo_path = b.repo_path /\ a.repo_path # NullText
    /\ a.user_id = b.user_id /\ a.user_id # NullText

\* A REAL column holds a fraction <<numerator, denominator>>; NullReal is
\* the SQL NULL of such a column.  Two fractions are the same number when
\* their cross products agree.
NullReal == <<>>

SameReal(a, b) ==
    /\ a # NullReal
    /\ b # NullReal
    /\ a[1] * b[2] = b[1] * a[2]

\* CASE WHEN hours > 0 THEN commits / hours ELSE 0 END, with the hours
\* held in seconds (HoursOf).
CommitsPerHour(total_commits, total_dev_hours) ==
    IF total_dev_hours > 0
    THEN <<total_commits * SecondsPerHour, total_dev_hours>>
    ELSE <<0, 1>>

\* A row of daily_summaries: the listed columns, the defaults for the
\* others (user_id has no default and is never listed: NULL).
SummaryRow(date, repo_path, project_api_key, ts, th, tc, ti, td) ==
    [date |-> date, repo_path |-> repo_path, project_api_key |-> project_api_key,
     total_sessions |-> ts, total_dev_hours |-> th,
     total_commits |-> tc, total_insertions |-> ti, total_deletions |-> td,
     active_coding_hours |-> 0, avg_commit_gap_minutes |-> NullReal,
     commits_per_hour |-> NullReal,
     user_id |-> NullText]

\* Mutation of UpsertSessionSummary: INSERT OR REPLACE keyed on (date,
\* repo_path), the rows already stored for the key are dropped.
UpsertSessionSummary_Overwrite(ds, date, repo_path, project_api_key, hours) ==
    LET row  == SummaryRow(date, repo_path, project_api_key, 1, hours, 0, 0, 0)
        kept == {r \in DOMAIN ds : ~(r.date = date /\ r.repo_path = repo_path)}
    IN  [r \in kept |-> ds[r]] (+) SetToBag({row})

\* INSERT INTO daily_summaries (date, repo_path, project_api_key,
\*   total_sessions, total_dev_hours) VALUES (?, ?, ?, 1, ?)
\* ON CONFLICT(date, repo_path, user_id) DO UPDATE SET
\*   total_sessions = total_sessions + 1,
\*   total_dev_hours = total_dev_hours + excluded.total_dev_hours
UpsertSessionSummary(ds, date, repo_path, project_api_key, hours) ==
    LET row == SummaryRow(date, repo_path, project_api_key, 1, hours, 0, 0, 0)
        hit == {r \in DOMAIN ds : SummaryConflict(r, row)}
        upd == [r \in DOMAIN ds |->
                  IF r \in hit
                  THEN [r EXCEPT !.total_sessions  = @ + 1,
                                 !.total_dev_hours = @ + row.total_dev_hours]
                  ELSE r]
    IN  IF hit = {} THEN ds (+) SetToBag({row}) ELSE BagUpdate(ds, upd)

\* Mutation of UpsertCommitSummary: the deletions are not bound to the
\* statement (total_deletions keeps its default / its old value).
UpsertCommitSummary_NoDeletions(ds, date, repo_path, project_api_key, insertions, deletions) ==
    LET row == SummaryRow(date, repo_path, project_api_key, 0, 0, 1, insertions, 0)
        hit == {r \in DOMAIN ds : SummaryConflict(r, row)}
        upd == [r \in DOMAIN ds |->
                  IF r \in hit
                  THEN [r EXCEPT !.total_commits    = @ + 1,
                                 !.total_insertions = @ + row.total_insertions]
                  ELSE r]
    IN  IF hit = {} THEN ds (+) SetToBag({row}) ELSE BagUpdate(ds, upd)

\* Mutation of UpsertCommitSummary: INSERT OR REPLACE keyed on (date,
\* repo_path) instead of the incrementing upsert.
UpsertCommitSummary_Replace(ds, date, repo_path, project_api_key, insertions, deletions) ==
    LET row == SummaryRow(date, repo_path, project_api_key, 0, 0, 1, insertions, deletions)
        old == {r \in DOMAIN ds : r.date = date /\ r.repo_path = repo_path}
    IN  [r \in (DOMAIN ds) \ old |-> ds[r]] (+) SetToBag({row})

\* INSERT INTO daily_summaries (date, repo_path, project_api_key,
\*   total_commits, total_insertions, total_deletions) VALUES (?, ?, ?, 1, ?, ?)
\* ON CONFLICT(date, repo_path, user_id) DO UPDATE SET
\*   total_commits = total_commits + 1,
\*   total_insertions = total_insertions + excluded.total_insertions,
\*   total_deletions = total_deletions + excluded.total_deletions
UpsertCommitSummary(ds, date, repo_path, project_api_key, insertions, deletions) ==
    LET row == SummaryRow(date, repo_path, project_api_key, 0, 0, 1, insertions, deletions)
        hit == {r \in DOMAIN ds : SummaryConflict(r, row)}
        upd == [r \in DOMAIN ds |->
                  IF r \in hit
                  THEN [r EXCEPT !.total_commits    = @ + 1,
                                 !.total_insertions = @ + row.total_insertions,
                                 !.total_deletions  = @ + row.total_deletions]
                  ELSE r]
    IN  IF hit = {} THEN ds (+) SetToBag({row}) ELSE BagUpdate(ds, upd)

\* The table t (a function from key to row) with the row of key k set to r.
Put(t, k, r) ==
    [x \in (DOMAIN t) \cup {k} |-> IF x = k THEN r ELSE t[x]]

\* One request leaves / enters / moves on in `inflight`.
Leave(r)    == inflight (-) SetToBag({r})
Enter(r)    == inflight (+) SetToBag({r})
Move(r, r2) == (inflight (-) SetToBag({r})) (+) SetToBag({r2})

\* The (date, repo_path) a request that is about to upsert will merge into.
TargetKey(r) ==
    IF r.kind = "end" THEN <<r.date, r.repo_path>>
    ELSE <<DateOf(r.timestamp), r.repo_path>>

\* History entry of one executed upsert: who merged (source, id), the delta
\* that was bound to the statement, and whether another request was waiting
\* to upsert into the same (date, repo_path) at that moment.
Merged(source, id, r, delta) ==
    [source |-> source, id |-> id,
     date |-> delta.date, repo_path |-> delta.repo_path,
     total_sessions |-> delta.total_sessions,
     total_dev_hours |-> delta.total_dev_hours,
     total_commits |-> delta.total_commits,
     total_insertions |-> delta.total_insertions,
     total_deletions |-> delta.total_deletions,
     concurrent |-> \E o \in DOMAIN Leave(r) :
                        /\ o.pc = "upsert"
                        /\ TargetKey(o) = <<delta.date, delta.repo_path>>]

\* ------------------------------------------------------------------------
\* POST /api/sessions/start
\* ------------------------------------------------------------------------

\* INSERT OR REPLACE INTO sessions (session_id, repo_path, project_api_key,
\* started_at, status) VALUES (?, ?, ?, ?, 'active'): a row with the same
\* session_id is deleted and the new row inserted.
InsertOrReplaceSession(t, session_id, repo_path, project_api_key, started_at) ==
    Put(t, session_id, NewSession(repo_path, project_api_key, started_at))

\* Mutation of SessionsStart: the foreign key of tool_events is declared
\* ON DELETE CASCADE, so the row REPLACE deletes takes its tool events along.
SessionsStart_Cascade(session_id, repo_path, project_api_key, started_at) ==
    /\ nreq < MaxRequests
    /\ nreq' = nreq + 1
    /\ IF FalsyText(session_id) \/ FalsyNum(started_at)
       THEN UNCHANGED <<sessions, tool_events>>
       ELSE /\ sessions' = InsertOrReplaceSession(sessions, session_id, repo_path,
                                                  project_api_key, started_at)
            /\ tool_events' =
                   LET kept == {e \in DOMAIN tool_events : e.session_id # session_id}
                   IN  [e \in kept |-> tool_events[e]]
    /\ UNCHANGED <<commits, project_mappings, daily_summaries,
                   inflight, mergeLog, fkEnforced>>

\* Lines 53-65
SessionsStart(session_id, repo_path, project_api_key, started_at) ==
    /\ nreq < MaxRequests
    /\ nreq' = nreq + 1
    /\ IF FalsyText(session_id) \/ FalsyNum(started_at)
       THEN UNCHANGED sessions                                   \* 400
       ELSE sessions' = InsertOrReplaceSession(sessions, session_id, repo_path,
                                               project_api_key, started_at)
    /\ UNCHANGED <<tool_events, commits, project_mappings, daily_summaries,
                   inflight, mergeLog, fkEnforced>>

\* ------------------------------------------------------------------------
\* POST /api/sessions/end
\* ------------------------------------------------------------------------

\* UPDATE sessions SET ended_at = ?, total_tool_calls = ?, status = 'completed'
\* WHERE session_id = ?
CloseSession(t, session_id, ended_at, total_tool_calls) ==
    [x \in DOMAIN t |->
        IF x = session_id
        THEN [t[x] EXCEPT !.ended_at = ended_at,
                          !.total_tool_calls = total_tool_calls,
                          !.status = "completed"]
        ELSE t[x]]

\* History carried by a sessions/end request: started_at and repo_path of
\* the session its UPDATE closed, if that session was active (NULL if the
\* UPDATE met no row or a session that was already closed).
ClosedStartedAt(session_id) ==
    IF session_id \in DOMAIN sessions /\ sessions[session_id].status = "active"
    THEN sessions[session_id].started_at
    ELSE NULL

ClosedRepoPath(session_id) ==
    IF session_id \in DOMAIN sessions /\ sessions[session_id].status = "active"
    THEN sessions[session_id].repo_path
    ELSE NullText

\* Lines 69-80: the body is validated and the UPDATE runs.
SessionsEnd_Update(session_id, ended_at, total_tool_calls) ==
    /\ nreq < MaxRequests
    /\ nreq' = nreq + 1
    /\ IF FalsyText(session_id)
       THEN UNCHANGED <<sessions, inflight>>                     \* 400
       ELSE /\ sessions' = CloseSession(sessions, session_id, ended_at,
                                        OrDefault(total_tool_calls, 0))
            /\ inflight' = Enter([kind |-> "end", pc |-> "select",
                                  session_id |-> session_id, ended_at |-> ended_at,
                                  closed_started_at |-> ClosedStartedAt(session_id),
                                  closed_repo_path |-> ClosedRepoPath(session_id)])
    /\ UNCHANGED <<tool_events, commits, project_mappings, daily_summaries,
                   mergeLog, fkEnforced>>

\* Lines 83-89: SELECT * FROM sessions WHERE session_id = ?, then the test
\* `session && session.started_at && session.ended_at` and the computation of
\* date and hours from the row that was read.
SessionsEnd_Select(r) ==
    /\ r \in DOMAIN inflight
    /\ r.kind = "end" /\ r.pc = "select"
    /\ IF /\ r.session_id \in DOMAIN sessions
          /\ ~FalsyNum(sessions[r.session_id].started_at)
          /\ ~FalsyNum(sessions[r.session_id].ended_at)
       THEN LET session == sessions[r.session_id]
            IN  inflight' = Move(r, [kind |-> "end", pc |-> "upsert",
                                     session_id |-> r.session_id,
                                     ended_at |-> r.ended_at,
                                     date |-> DateOf(session.started_at),
                                     repo_path |-> session.repo_path,
                                     project_api_key |-> session.project_api_key,
                                     hours |-> HoursOf(session.started_at,
                                                       session.ended_at)])
       ELSE inflight' = Leave(r)
    /\ UNCHANGED <<tables, nreq, mergeLog, fkEnforced>>

\* Lines 91-100: the upsert into daily_summaries, then the response.
SessionsEnd_Upsert(r) ==
    /\ r \in DOMAIN inflight
    /\ r.kind = "end" /\ r.pc = "upsert"
    /\ daily_summaries' = UpsertSessionSummary(daily_summaries, r.date, r.repo_path,
                                               r.project_api_key, r.hours)
    /\ mergeLog' = mergeLog (+) SetToBag({Merged("session", r.session_id, r,
                          SummaryRow(r.date, r.repo_path, r.project_api_key,
                                     1, r.hours, 0, 0, 0))})
    /\ inflight' = Leave(r)
    /\ UNCHANGED <<sessions, tool_events, commits, project_mappings, nreq, fkEnforced>>

\* ------------------------------------------------------------------------
\* POST /api/events
\* ------------------------------------------------------------------------

\* FOREIGN KEY (session_id) REFERENCES sessions(session_id): the statement
\* fails when the constraint is enforced and the parent row is missing
\* (a NULL child column is never a violation).
ForeignKeyFails(session_id) ==
    fkEnforced /\ session_id # NullText /\ session_id \notin DOMAIN sessions

\* Lines 108-118: the body is validated and the tool event inserted.
Events_Insert(session_id, tool_name, event_type, timestamp) ==
    /\ nreq < MaxRequests
    /\ nreq' = nreq + 1
    /\ IF \/ FalsyText(session_id) \/ FalsyText(tool_name)
          \/ FalsyText(event_type) \/ FalsyNum(timestamp)
       THEN UNCHANGED <<tool_events, inflight>>                  \* 400
       ELSE IF ForeignKeyFails(session_id)
       THEN UNCHANGED <<tool_events, inflight>>                  \* the INSERT throws
       ELSE /\ tool_events' = tool_events (+)
                   SetToBag({[session_id |-> session_id, tool_name |-> tool_name,
                              event_type |-> event_type, timestamp |-> timestamp]})
            /\ IF event_type = "start"
               THEN inflight' = Enter([kind |-> "event", pc |-> "count",
                                       session_id |-> session_id])
               ELSE UNCHANGED inflight
    /\ UNCHANGED <<sessions, commits, project_mappings, daily_summaries,
                   mergeLog, fkEnforced>>

\* Mutation of CountToolCall: the count is recomputed from what is stored,
\* SET total_tool_calls = (SELECT COUNT(*) FROM tool_events WHERE
\* session_id = ? AND event_type = 'start').
CountToolCall_Recount(t, session_id) ==
    LET starts == {e \in DOMAIN tool_events :
                      e.session_id = session_id /\ e.event_type = "start"}
    IN  [x \in DOMAIN t |->
            IF x = session_id
            THEN [t[x] EXCEPT !.total_tool_calls =
                      BagCardinality([e \in starts |-> tool_events[e]])]
            ELSE t[x]]

\* UPDATE sessions SET total_tool_calls = total_tool_calls + 1 WHERE session_id = ?
CountToolCall(t, session_id) ==
    [x \in DOMAIN t |->
        IF x = session_id
        THEN [t[x] EXCEPT !.total_tool_calls = @ + 1]
        ELSE t[x]]

\* Lines 121-127
Events_UpdateCount(r) ==
    /\ r \in DOMAIN inflight
    /\ r.kind = "event" /\ r.pc = "count"
    /\ sessions' = CountToolCall(sessions, r.session_id)
    /\ inflight' = Leave(r)
    /\ UNCHANGED <<tool_events, commits, project_mappings, daily_summaries,
                   nreq, mergeLog, fkEnforced>>

\* ------------------------------------------------------------------------
\* POST /api/commits
\* ------------------------------------------------------------------------

\* SELECT project_api_key FROM project_mappings WHERE repo_path = ?, then
\* `mapping?.project_api_key || null`
MappingKey(repo_path) ==
    IF repo_path \in DOMAIN project_mappings
    THEN project_mappings[repo_path].project_api_key
    ELSE NullText

\* Lines 135-145: the body is validated and the mapping read.
Commits_SelectMapping(commit_hash, repo_path, session_id, timestamp, insertions, deletions) ==
    /\ nreq < MaxRequests
    /\ nreq' = nreq + 1
    /\ IF FalsyText(commit_hash) \/ FalsyText(repo_path) \/ FalsyNum(timestamp)
       THEN UNCHANGED inflight                                   \* 400
       ELSE inflight' = Enter([kind |-> "commit", pc |-> "insert",
                               commit_hash |-> commit_hash, repo_path |-> repo_path,
                               session_id |-> session_id, timestamp |-> timestamp,
                               insertions |-> insertions, deletions |-> deletions,
                               project_api_key |-> MappingKey(repo_path)])
    /\ UNCHANGED <<tables, mergeLog, fkEnforced>>

\* Mutation of InsertOrIgnoreCommit: INSERT OR REPLACE, a later request for
\* a stored commit_hash rewrites the row.
InsertOrIgnoreCommit_Replace(t, r) ==
    Put(t, r.commit_hash,
        [repo_path |-> r.repo_path, session_id |-> r.session_id,
         project_api_key |-> r.project_api_key, timestamp |-> r.timestamp,
         insertions |-> r.insertions, deletions |-> r.deletions,
         pushed_to_roadmap |-> 0])

\* INSERT OR IGNORE INTO commits (..) VALUES (..): a row whose commit_hash is
\* already stored is skipped.
InsertOrIgnoreCommit(t, r) ==
    IF r.commit_hash \in DOMAIN t
    THEN t
    ELSE Put(t, r.commit_hash,
             [repo_path |-> r.repo_path, session_id |-> r.session_id,
              project_api_key |-> r.project_api_key, timestamp |-> r.timestamp,
              insertions |-> r.insertions, deletions |-> r.deletions,
              pushed_to_roadmap |-> 0])

\* Lines 147-155.  OR IGNORE does not cover FOREIGN KEY: a new row with an
\* unknown session_id makes the statement throw and the handler ends.
Commits_Insert(r) ==
    /\ r \in DOMAIN inflight
    /\ r.kind = "commit" /\ r.pc = "insert"
    /\ IF r.commit_hash \notin DOMAIN commits /\ ForeignKeyFails(r.session_id)
       THEN /\ inflight' = Leave(r)
            /\ UNCHANGED commits
       ELSE /\ commits' = InsertOrIgnoreCommit(commits, r)
            /\ inflight' = Move(r, [r EXCEPT !.pc = "upsert"])
    /\ UNCHANGED <<sessions, tool_events, project_mappings, daily_summaries,
                   nreq, mergeLog, fkEnforced>>

\* Lines 157-168: the upsert into daily_summaries, then the response.
Commits_Upsert(r) ==
    /\ r \in DOMAIN inflight
    /\ r.kind = "commit" /\ r.pc = "upsert"
    /\ daily_summaries' = UpsertCommitSummary(daily_summaries, DateOf(r.timestamp),
                              r.repo_path, r.project_api_key,
                              OrDefault(r.insertions, 0), OrDefault(r.deletions, 0))
    /\ mergeLog' = mergeLog (+) SetToBag({Merged("commit", r.commit_hash, r,
                          SummaryRow(DateOf(r.timestamp), r.repo_path, r.project_api_key,
                                     0, 0, 1, OrDefault(r.insertions, 0),
                                     OrDefault(r.deletions, 0)))})
    /\ inflight' = Leave(r)
    /\ UNCHANGED <<sessions, tool_events, commits, project_mappings, nreq, fkEnforced>>

\* Line 168: the body of the 200 response, built from the request alone (the
\* result of the INSERT statement is not kept).
Commits_Response(r) == [success |-> TRUE, commit_hash |-> r.commit_hash]

\* ------------------------------------------------------------------------
\* POST /api/mappings
\* ------------------------------------------------------------------------

\* Mutation of InsertOrReplaceMapping: INSERT OR IGNORE, the first mapping
\* of a repository is kept.
InsertOrReplaceMapping_Ignore(t, repo_path, project_api_key, project_name, phase) ==
    IF repo_path \in DOMAIN t
    THEN t
    ELSE Put(t, repo_path, [project_api_key |-> project_api_key,
                            project_name |-> project_name, phase |-> phase,
                            auto_push_updates |-> 1])

\* INSERT OR REPLACE INTO project_mappings (repo_path, project_api_key,
\* project_name, phase) VALUES (?, ?, ?, ?)
InsertOrReplaceMapping(t, repo_path, project_api_key, project_name, phase) ==
    Put(t, repo_path, [project_api_key |-> project_api_key,
                       project_name |-> project_name, phase |-> phase,
                       auto_push_updates |-> 1])

\* Lines 183-195
Mappings_Post(repo_path, project_api_key, project_name, phase) ==
    /\ nreq < MaxRequests
    /\ nreq' = nreq + 1
    /\ IF FalsyText(repo_path) \/ FalsyText(project_api_key)
       THEN UNCHANGED project_mappings                           \* 400
       ELSE project_mappings' =
               InsertOrReplaceMapping(project_mappings, repo_path, project_api_key,
                   project_name, IF FalsyText(phase) THEN "development" ELSE phase)
    /\ UNCHANGED <<sessions, tool_events, commits, daily_summaries,
                   inflight, mergeLog, fkEnforced>>

\* MCP tool link_repo_to_project (lines 486-492): the same statement as
\* POST /api/mappings, without the check of the arguments.
LinkRepoToProject(repo_path, project_api_key, project_name, phase) ==
    /\ nreq < MaxRequests
    /\ nreq' = nreq + 1
    /\ project_mappings' =
           InsertOrReplaceMapping(project_mappings, repo_path, project_api_key,
               project_name, IF FalsyText(phase) THEN "development" ELSE phase)
    /\ UNCHANGED <<sessions, tool_events, commits, daily_summaries,
                   inflight, mergeLog, fkEnforced>>

\* ------------------------------------------------------------------------
\* Requests the Worker is sent
\* ------------------------------------------------------------------------

\* track-cloud.sh cmd_start sends no project_api_key.
StartKeys     == {NullText}
\* track-cloud.sh cmd_end sends no total_tool_calls; other clients may.
EndCounts     == {NULL, 2}
\* insertions and deletions of a commit
Stats         == {<<2, 1>>, <<0, 0>>}
ProjectNames  == {"p1", "p2"}
Phases        == {NullText, "beta"}

ReceiveSessionsStart(S, R, T) ==
    \E session_id \in S, repo_path \in R, project_api_key \in StartKeys,
       started_at \in T :
        SessionsStart(session_id, repo_path, project_api_key, started_at)

ReceiveSessionsEnd(S, T, C) ==
    \E session_id \in S, ended_at \in T, total_tool_calls \in C :
        SessionsEnd_Update(session_id, ended_at, total_tool_calls)

ReceiveEvent(S, E, T) ==
    \E session_id \in S, tool_name \in ToolNames, event_type \in E, timestamp \in T :
        Events_Insert(session_id, tool_name, event_type, timestamp)

ReceiveCommit(H, R, S, T, St) ==
    \E commit_hash \in H, repo_path \in R, session_id \in S, timestamp \in T,
       stat \in St :
        Commits_SelectMapping(commit_hash, repo_path, session_id, timestamp,
                              stat[1], stat[2])

ReceiveMapping(R, K, N, P) ==
    \E repo_path \in R, project_api_key \in K, project_name \in N, phase \in P :
        Mappings_Post(repo_path, project_api_key, project_name, phase)

StepSessionsEndSelect == \E r \in DOMAIN inflight : SessionsEnd_Select(r)
StepSessionsEndUpsert == \E r \in DOMAIN inflight : SessionsEnd_Upsert(r)
StepEventsUpdateCount == \E r \in DOMAIN inflight : Events_UpdateCount(r)
StepCommitsInsert     == \E r \in DOMAIN inflight : Commits_Insert(r)
StepCommitsUpsert     == \E r \in DOMAIN inflight : Commits_Upsert(r)

\* The whole Worker: every write endpoint, one session, one repository, one
\* commit hash.
Next ==
    \/ ReceiveSessionsStart({"s1"}, {"r1"}, Timestamps)
    \/ ReceiveSessionsEnd({"s1"}, Timestamps \cup {NULL}, {NULL})
    \/ StepSessionsEndSelect
    \/ StepSessionsEndUpsert
    \/ ReceiveEvent({"s1"}, EventTypes, {SecondsPerHour})
    \/ StepEventsUpdateCount
    \/ ReceiveCommit({"h1"}, {"r1"}, {"s1", NullText}, Timestamps, {<<2, 1>>})
    \/ StepCommitsInsert
    \/ StepCommitsUpsert
    \/ ReceiveMapping({"r1"}, ApiKeys, {"p1"}, {NullText})

Spec == Init /\ [][Next]_vars

\* A handler that has run some of its statements stops before the next one:
\* a statement throws (D1 error, or toISOString on a timestamp that is not a
\* number, lines 87 and 158) or the invocation is cut off.  No handler runs
\* its statements in a transaction or batch, so what was written stays.
Interrupted(r) ==
    /\ r \in DOMAIN inflight
    /\ inflight' = Leave(r)
    /\ UNCHANGED <<tables, nreq, mergeLog, fkEnforced>>

StepInterrupted == \E r \in DOMAIN inflight : Interrupted(r)

\* The Worker with handlers that may stop between two statements.
NextFaults ==
    \/ Next
    \/ StepInterrupted

SpecFaults == Init /\ [][NextFaults]_vars

\* The session endpoints and the tool events alone, with malformed bodies
\* and every combination of repository, timestamp and tool-call count.
NextSessions ==
    \/ ReceiveSessionsStart(SessionIds \cup {NullText}, Repos \cup {NullText},
                            Timestamps \cup {NULL})
    \/ ReceiveSessionsEnd(SessionIds \cup {NullText}, Timestamps \cup {NULL}, EndCounts)
    \/ StepSessionsEndSelect
    \/ StepSessionsEndUpsert
    \/ ReceiveEvent(SessionIds, EventTypes, Timestamps \cup {NULL})
    \/ StepEventsUpdateCount

SpecSessions == Init /\ [][NextSessions]_vars

\* The commit and mapping endpoints alone, with two hashes, two repositories
\* and malformed bodies.
NextCommits ==
    \/ ReceiveCommit(Hashes, Repos \cup {NullText}, {NullText},
                     {SecondsPerHour, SecondsPerDay + SecondsPerHour}, Stats)
    \/ StepCommitsInsert
    \/ StepCommitsUpsert
    \/ ReceiveMapping({"r1"}, {"k1", NullText}, {"p1"}, {NullText})

SpecCommits == Init /\ [][NextCommits]_vars

\* An MCP client calls link_repo_to_project with every argument given
\* except, possibly, the phase.
CallLinkRepoToProject(R, K, N, P) ==
    \E repo_path \in R, project_api_key \in K, project_name \in N, phase \in P :
        LinkRepoToProject(repo_path, project_api_key, project_name, phase)

\* The mapping upserts of the REST endpoint and of the MCP tool, with two
\* repositories, names and phases, next to the commits of one repository.
NextMappings ==
    \/ ReceiveMapping(Repos, ApiKeys \cup {NullText}, ProjectNames, Phases)
    \/ CallLinkRepoToProject(Repos, ApiKeys, ProjectNames, Phases)
    \/ ReceiveCommit({"h1"}, {"r1"}, {NullText}, {SecondsPerHour}, {<<2, 1>>})
    \/ StepCommitsInsert
    \/ StepCommitsUpsert

SpecMappings == Init /\ [][NextMappings]_vars

\* ------------------------------------------------------------------------
\* authMiddleware in front of the write routes
\* ------------------------------------------------------------------------

\* c.env.API_TOKEN
API_TOKEN == "tok"

\* An Authorization header, cut where the middleware cuts it: its first
\* seven characters and the rest (slice(7)).  NoHeader is a request without
\* the header.
NoHeader == [scheme |-> NullText, token |-> NullText]

AuthHeaders == {NoHeader,
                [scheme |-> "Bearer ", token |-> "tok"],
                [scheme |-> "Bearer ", token |-> "bad"],
                [scheme |-> "Basic t", token |-> "ok"]}

\* What the middleware answers: 401, 403, or the handler's own answer (200).
Unauthorized == 401
Forbidden    == 403
Passed       == 200

\* Mutation of authMiddleware: the scheme is not looked at, a request
\* without a Bearer header reaches the handler.
authMiddleware_NoSchemeCheck(authHeader) ==
    IF authHeader.scheme = "Bearer " /\ authHeader.token # API_TOKEN
    THEN Forbidden
    ELSE Passed

\* Lines 36-46
authMiddleware(authHeader) ==
    IF authHeader.scheme # "Bearer " THEN Unauthorized
    ELSE IF authHeader.token # API_TOKEN THEN Forbidden
    ELSE Passed

\* The request is answered by the middleware; the handler does not run.
Rejected ==
    /\ nreq < MaxRequests
    /\ nreq' = nreq + 1
    /\ UNCHANGED <<tables, inflight, mergeLog, fkEnforced>>

\* app.post(path, authMiddleware, handler)
Route(authHeader, handler) ==
    IF authMiddleware(authHeader) = Passed THEN handler ELSE Rejected

PostSessionsStart(authHeader) ==
    Route(authHeader, ReceiveSessionsStart({"s1"}, {"r1"}, {SecondsPerHour}))
PostSessionsEnd(authHeader) ==
    Route(authHeader, ReceiveSessionsEnd({"s1"}, {2 * SecondsPerHour}, {NULL}))
PostEvents(authHeader) ==
    Route(authHeader, ReceiveEvent({"s1"}, EventTypes, {SecondsPerHour}))
PostCommits(authHeader) ==
    Route(authHeader, ReceiveCommit({"h1"}, {"r1"}, {NullText}, {SecondsPerHour},
                                    {<<2, 1>>}))
PostMappings(authHeader) ==
    Route(authHeader, ReceiveMapping({"r1"}, {"k1"}, {"p1"}, {NullText}))
PostMcp(authHeader) ==
    Route(authHeader, CallLinkRepoToProject({"r1"}, {"k2"}, {"p1"}, {NullText}))

\* The write routes as clients reach them, with and without the token.
NextAuth ==
    \/ \E authHeader \in AuthHeaders : PostSessionsStart(authHeader)
    \/ \E authHeader \in AuthHeaders : PostSessionsEnd(authHeader)
    \/ \E authHeader \in AuthHeaders : PostEvents(authHeader)
    \/ \E authHeader \in AuthHeaders : PostCommits(authHeader)
    \/ \E authHeader \in AuthHeaders : PostMappings(authHeader)
    \/ \E authHeader \in AuthHeaders : PostMcp(authHeader)
    \/ StepSessionsEndSelect
    \/ StepSessionsEndUpsert
    \/ StepEventsUpdateCount
    \/ StepCommitsInsert
    \/ StepCommitsUpsert

SpecAuth == Init /\ [][NextAuth]_vars

\* ------------------------------------------------------------------------
\* GET /api/data: the dashboard read with its ROI figures
\* ------------------------------------------------------------------------

\* Arithmetic of JavaScript numbers, done exactly on fractions.
RECURSIVE Gcd(_, _)
Gcd(a, b) == IF b = 0 THEN a ELSE Gcd(b, a % b)

\* The fraction in lowest terms (the denominator stays positive).
Lowest(a) ==
    LET g == Gcd(IF a[1] < 0 THEN 0 - a[1] ELSE a[1], a[2])
    IN  <<a[1] \div g, a[2] \div g>>

Times(a, b) == Lowest(<<a[1] * b[1], a[2] * b[2]>>)
Minus(a, b) == Lowest(<<a[1] * b[2] - b[1] * a[2], a[2] * b[2]>>)
Whole(n)    == <<n, 1>>

\* const multiplier = 2.5
multiplier == <<5, 2>>

\* const hourlyRate = 75
hourlyRate == 75

\* COALESCE(SUM(total_dev_hours), 0) over the rows of the period, in hours;
\* the period is taken to cover every stored date.
devHours(ds) ==
    Lowest(<<SumColumn(ds, DOMAIN ds, "total_dev_hours"), SecondsPerHour>>)

\* Mutation of roi_calculation: the hours worked are not taken off, the time
\* saved is the whole manual estimate.
roi_calculation_NoBaseline(dev_hours) ==
    LET timeSaved   == Times(dev_hours, multiplier)
        costSavings == Times(timeSaved, Whole(hourlyRate))
    IN  [dev_hours |-> dev_hours, multiplier |-> multiplier,
         estimated_manual_hours |-> Times(dev_hours, multiplier),
         time_saved |-> timeSaved, hourly_rate |-> hourlyRate,
         cost_savings |-> costSavings]

\* Lines 258-284: timeSaved = devHours * (multiplier - 1),
\* costSavings = timeSaved * hourlyRate, and the roi_calculation object.
roi_calculation(dev_hours) ==
    LET timeSaved   == Times(dev_hours, Minus(multiplier, Whole(1)))
        costSavings == Times(timeSaved, Whole(hourlyRate))
    IN  [dev_hours |-> dev_hours, multiplier |-> multiplier,
         estimated_manual_hours |-> Times(dev_hours, multiplier),
         time_saved |-> timeSaved, hourly_rate |-> hourlyRate,
         cost_savings |-> costSavings]

\* The handler only reads.
GetData ==
    /\ nreq < MaxRequests
    /\ nreq' = nreq + 1
    /\ UNCHANGED <<tables, inflight, mergeLog, fkEnforced>>

\* Sessions of one hour and of forty hours are closed and merged, commits
\* are recorded, and the dashboard reads in between.
NextRoi ==
    \/ ReceiveSessionsStart({"s1"}, {"r1"}, {SecondsPerHour})
    \/ ReceiveSessionsEnd({"s1"}, {2 * SecondsPerHour, 41 * SecondsPerHour}, {NULL})
    \/ StepSessionsEndSelect
    \/ StepSessionsEndUpsert
    \/ ReceiveCommit({"h1"}, {"r1"}, {NullText}, {SecondsPerHour}, {<<2, 1>>})
    \/ StepCommitsInsert
    \/ StepCommitsUpsert
    \/ GetData

SpecRoi == Init /\ [][NextRoi]_vars

\* ------------------------------------------------------------------------
\* The local tracker: hooks/track.sh on the SQLite database of schema.sql.
\* The hook runs one command at a time; a command is one action.
\* ------------------------------------------------------------------------

\* Values of `date +%s`, four in the first day and one in the second.
Clock == {SecondsPerHour, 2 * SecondsPerHour, 3 * SecondsPerHour,
          4 * SecondsPerHour, SecondsPerDay + SecondsPerHour}

LocalTools == {"Read", "Edit"}

RECURSIVE SumFn(_)
SumFn(f) ==
    IF DOMAIN f = {} THEN 0
    ELSE LET x == CHOOSE x \in DOMAIN f : TRUE
         IN  f[x] + SumFn([y \in (DOMAIN f) \ {x} |-> f[y]])

\* The latest time a command has written; the clock never runs backwards.
LastTime ==
    LET times == {sessions[x].started_at : x \in DOMAIN sessions}
                 \cup {sessions[x].ended_at : x \in DOMAIN sessions}
                 \cup {e.timestamp : e \in DOMAIN tool_events}
    IN  IF times \ {NULL} = {} THEN 0
        ELSE CHOOSE t \in times : \A u \in times : u <= t

now == {t \in Clock : t >= LastTime}

\* Working directories of the hook: the top of repository r1 and a
\* directory below it.
Pwds == {"r1", "r1/sub"}

\* git rev-parse --show-toplevel || pwd
get_repo_path(pwd) == IF pwd = "r1/sub" THEN "r1" ELSE pwd

\* session_${date +%Y%m%d}_${md5sum of pwd}
get_session_id(pwd, ts) == "session_" \o ToString(DateOf(ts)) \o "_" \o pwd

\* SELECT project_api_key FROM project_mappings WHERE repo_path = .. LIMIT 1
\* || echo ""
LocalProjectKey(repo_path) ==
    IF repo_path \in DOMAIN project_mappings
    THEN project_mappings[repo_path].project_api_key
    ELSE ""

\* INSERT OR IGNORE INTO sessions (session_id, repo_path, project_api_key,
\* started_at, status) VALUES (.., 'active')
start_session(t, pwd, ts) ==
    IF get_session_id(pwd, ts) \in DOMAIN t
    THEN t
    ELSE Put(t, get_session_id(pwd, ts),
             NewSession(get_repo_path(pwd),
                        LocalProjectKey(get_repo_path(pwd)), ts))

StartSession(pwd, ts) ==
    /\ nreq < MaxCommands
    /\ nreq' = nreq + 1
    /\ sessions' = start_session(sessions, pwd, ts)
    /\ UNCHANGED <<tool_events, commits, project_mappings, daily_summaries,
                   inflight, mergeLog, fkEnforced>>

\* SELECT COUNT(*) FROM tool_events WHERE session_id = ..
ToolCount(session_id) ==
    LET own == {e \in DOMAIN tool_events : e.session_id = session_id}
    IN  SumFn([e \in own |-> tool_events[e]])

\* UPDATE sessions SET ended_at, status = 'completed', total_tool_calls
\* WHERE session_id = .. AND ended_at IS NULL
end_session(pwd, ts) ==
    /\ nreq < MaxCommands
    /\ nreq' = nreq + 1
    /\ LET session_id == get_session_id(pwd, ts)
       IN  IF session_id \in DOMAIN sessions /\ sessions[session_id].ended_at = NULL
           THEN sessions' = CloseSession(sessions, session_id, ts,
                                         ToolCount(session_id))
           ELSE UNCHANGED sessions
    /\ UNCHANGED <<tool_events, commits, project_mappings, daily_summaries,
                   inflight, mergeLog, fkEnforced>>

ToolEvent(session_id, tool_name, event_type, ts) ==
    [session_id |-> session_id, tool_name |-> tool_name,
     event_type |-> event_type, timestamp |-> ts]

\* start_session, then INSERT INTO tool_events (.., 'start', ts)
tool_start(pwd, tool_name, ts) ==
    /\ nreq < MaxCommands
    /\ nreq' = nreq + 1
    /\ sessions' = start_session(sessions, pwd, ts)
    /\ tool_events' = tool_events (+)
           SetToBag({ToolEvent(get_session_id(pwd, ts), tool_name, "start", ts)})
    /\ UNCHANGED <<commits, project_mappings, daily_summaries,
                   inflight, mergeLog, fkEnforced>>

\* INSERT INTO tool_events (.., 'end', exit_code, ts); no session is created
tool_end(pwd, tool_name, ts) ==
    /\ nreq < MaxCommands
    /\ nreq' = nreq + 1
    /\ IF ForeignKeyFails(get_session_id(pwd, ts))
       THEN UNCHANGED tool_events
       ELSE tool_events' = tool_events (+)
               SetToBag({ToolEvent(get_session_id(pwd, ts), tool_name, "end", ts)})
    /\ UNCHANGED <<sessions, commits, project_mappings, daily_summaries,
                   inflight, mergeLog, fkEnforced>>

\* INSERT OR IGNORE INTO commits (..); the timestamp is the commit's own
\* (git log --pretty=%ct), the session that of the working directory today.
log_commit(pwd, ts, commit_hash, timestamp, insertions, deletions) ==
    /\ nreq < MaxCommands
    /\ nreq' = nreq + 1
    /\ IF ForeignKeyFails(get_session_id(pwd, ts))
       THEN UNCHANGED commits
       ELSE commits' = InsertOrIgnoreCommit(commits,
               [commit_hash |-> commit_hash, repo_path |-> get_repo_path(pwd),
                session_id |-> get_session_id(pwd, ts),
                project_api_key |-> LocalProjectKey(get_repo_path(pwd)),
                timestamp |-> timestamp,
                insertions |-> insertions, deletions |-> deletions])
    /\ UNCHANGED <<sessions, tool_events, project_mappings, daily_summaries,
                   inflight, mergeLog, fkEnforced>>

\* INSERT OR REPLACE INTO project_mappings (repo_path, project_api_key,
\* project_name, auto_push_updates); phase takes its default.
link_project(project_api_key, project_name, repo_path) ==
    /\ nreq < MaxCommands
    /\ nreq' = nreq + 1
    /\ project_mappings' =
           InsertOrReplaceMapping(project_mappings, repo_path, project_api_key,
                                  project_name, "development")
    /\ UNCHANGED <<sessions, tool_events, commits, daily_summaries,
                   inflight, mergeLog, fkEnforced>>

\* View v_active_coding_time over the tool_events bag te, for one session:
\* every 'start' row LEFT JOINed with every later 'end' row of the same
\* session and tool, SUM of (end - start) over the joined rows, in seconds.
v_active_coding_time(te, session_id) ==
    LET te_starts == {e \in DOMAIN te :
                        e.session_id = session_id /\ e.event_type = "start"}
        te_ends(te_start) ==
            {e \in DOMAIN te :
                /\ e.session_id = te_start.session_id
                /\ e.tool_name = te_start.tool_name
                /\ e.event_type = "end"
                /\ e.timestamp > te_start.timestamp}
    IN  SumFn([te_start \in te_starts |->
                 te[te_start] *
                 SumFn([te_end \in te_ends(te_start) |->
                          te[te_end] * (te_end.timestamp - te_start.timestamp)])])

\* The timestamps of the commits H, ascending (ORDER BY c1.timestamp).
RECURSIVE OrderByTimestamp(_)
OrderByTimestamp(H) ==
    IF H = {} THEN <<>>
    ELSE LET h == CHOOSE h \in H :
                    \A g \in H : commits[h].timestamp <= commits[g].timestamp
         IN  <<commits[h].timestamp>> \o OrderByTimestamp(H \ {h})

\* View v_commit_gaps for one repository: each commit with the difference
\* to LAG(timestamp) OVER (PARTITION BY repo_path ORDER BY timestamp), in
\* seconds; the first row of the partition has no gap.  The result is the
\* sequence of <<commit_time, gap>> of the rows that have one.
v_commit_gaps(repo_path) ==
    LET c1 == OrderByTimestamp({h \in DOMAIN commits :
                                  commits[h].repo_path = repo_path})
    IN  [i \in 1..(Len(c1) - 1) |-> <<c1[i + 1], c1[i + 1] - c1[i]>>]

\* SELECT AVG(gap_minutes) FROM v_commit_gaps WHERE repo_path = ..
\* AND date(commit_time) = .. AND gap_minutes IS NOT NULL
AvgCommitGapMinutes(date, repo_path) ==
    LET gaps == v_commit_gaps(repo_path)
        rows == {i \in DOMAIN gaps : DateOf(gaps[i][1]) = date}
    IN  IF rows = {} THEN NullReal
        ELSE <<SumFn([i \in rows |-> gaps[i][2]]), 60 * Cardinality(rows)>>

\* The row the SELECT of generate_summary computes from the sessions S.
LocalSummaryRow(date, repo_path, S) ==
    LET on_day == {h \in DOMAIN commits :
                     /\ commits[h].repo_path = repo_path
                     /\ DateOf(commits[h].timestamp) = date}
        hours  == SumFn([x \in S |->
                     IF sessions[x].ended_at # NULL
                     THEN HoursOf(sessions[x].started_at, sessions[x].ended_at)
                     ELSE 0])
        pm_key == IF repo_path \in DOMAIN project_mappings
                  THEN project_mappings[repo_path].project_api_key
                  ELSE NullText
        row    == SummaryRow(date, repo_path, pm_key, Cardinality(S), hours,
                     Cardinality(on_day),
                     SumFn([h \in on_day |-> commits[h].insertions]),
                     SumFn([h \in on_day |-> commits[h].deletions]))
    IN  [row EXCEPT
           !.active_coding_hours =
               SumFn([x \in S |-> v_active_coding_time(tool_events, x)]),
           !.avg_commit_gap_minutes = AvgCommitGapMinutes(date, repo_path),
           !.commits_per_hour = CommitsPerHour(Cardinality(on_day), hours)]

\* INSERT OR REPLACE INTO daily_summaries .. SELECT .. FROM sessions s ..
\* WHERE s.repo_path = .. AND date(s.started_at) = ..: nothing is written
\* when no session of the repository started that day; otherwise the row
\* replaces the one UNIQUE(date, repo_path) finds.
generate_summary(date, repo_path) ==
    /\ nreq < MaxCommands
    /\ nreq' = nreq + 1
    /\ LET S == {x \in DOMAIN sessions :
                    /\ sessions[x].repo_path = repo_path
                    /\ DateOf(sessions[x].started_at) = date}
           kept == {r \in DOMAIN daily_summaries :
                      ~(r.date = date /\ r.repo_path = repo_path)}
       IN  IF S = {}
           THEN UNCHANGED daily_summaries
           ELSE daily_summaries' =
                   [r \in kept |-> daily_summaries[r]]
                   (+) SetToBag({LocalSummaryRow(date, repo_path, S)})
    /\ UNCHANGED <<sessions, tool_events, commits, project_mappings,
                   inflight, mergeLog, fkEnforced>>

\* The commands the hook runs in the working directory r1; `start` is also
\* run from the directory below it.
RunStart      == \E ts \in now, pwd \in Pwds : StartSession(pwd, ts)
RunEnd        == \E ts \in now : end_session("r1", ts)
RunToolStart  == \E ts \in now, tool_name \in LocalTools : tool_start("r1", tool_name, ts)
RunToolEnd    == \E ts \in now, tool_name \in LocalTools : tool_end("r1", tool_name, ts)
RunCommit     == \E ts \in now, commit_hash \in Hashes,
                    timestamp \in {SecondsPerHour, SecondsPerDay + SecondsPerHour} :
                     log_commit("r1", ts, commit_hash, timestamp, 2, 1)
RunSummary    == \E date \in {0, 1} : generate_summary(date, "r1")
RunLink       == link_project("k1", "p1", "r1")

NextLocal ==
    \/ RunStart
    \/ RunEnd
    \/ RunToolStart
    \/ RunToolEnd
    \/ RunCommit
    \/ RunSummary
    \/ RunLink

SpecLocal == Init /\ [][NextLocal]_vars

\* ------------------------------------------------------------------------
\* Properties
\* ------------------------------------------------------------------------

Dates     == {DateOf(t) : t \in Timestamps}
RepoPaths == Repos \cup {NullText}
Additive  == {"total_sessions", "total_dev_hours", "total_commits",
              "total_insertions", "total_deletions"}

\* Number of upserts executed for the source record (source, id).
MergesOf(source, id) ==
    LET own == {e \in DOMAIN mergeLog : e.source = source /\ e.id = id}
    IN  SumColumn(mergeLog, own, "total_sessions")
        + SumColumn(mergeLog, own, "total_commits")

\* C1: however many times a commit hash is submitted, one commit row is
\* stored for it and the daily summary is merged into at most once for it.
C1_CommitMergedOnce ==
    \A h \in Hashes : MergesOf("commit", h) <= 1

\* C2: of two sessions/end requests for the same session that carry
\* different timestamps and run concurrently, at most one goes on to merge
\* into the daily summary.
C2_OneWinnerPerRace ==
    \A a, b \in DOMAIN inflight :
        ~ /\ a.kind = "end" /\ b.kind = "end"
          /\ a.pc = "upsert" /\ b.pc = "upsert"
          /\ a.session_id = b.session_id
          /\ a.ended_at # NULL /\ b.ended_at # NULL
          /\ a.ended_at # b.ended_at

\* C3: a sessions/end request for a session whose ended_at is already set
\* leaves the session row as the first close set it.
C3_SecondEndIsNoOp ==
    [][\A session_id \in SessionIds, ended_at \in Timestamps,
          total_tool_calls \in EndCounts :
            ( /\ SessionsEnd_Update(session_id, ended_at, total_tool_calls)
              /\ session_id \in DOMAIN sessions
              /\ sessions[session_id].ended_at # NULL )
            => sessions'[session_id] = sessions[session_id]]_vars

\* C4: a sessions/start request for a session that already exists leaves
\* the session row unchanged.
C4_StartIsIdempotent ==
    [][\A session_id \in SessionIds, repo_path \in Repos,
          project_api_key \in StartKeys, started_at \in Timestamps :
            ( /\ SessionsStart(session_id, repo_path, project_api_key, started_at)
              /\ session_id \in DOMAIN sessions )
            => sessions'[session_id] = sessions[session_id]]_vars

\* C5: once ended_at of a session is set, no step returns it to unset.
C5_EndedAtNeverUnset ==
    [][\A session_id \in DOMAIN sessions :
            sessions[session_id].ended_at # NULL
            => /\ session_id \in DOMAIN sessions'
               /\ sessions'[session_id].ended_at # NULL]_vars

\* C6: completed is terminal: no step changes the status of a completed
\* session.
C6_CompletedIsTerminal ==
    [][\A session_id \in DOMAIN sessions :
            sessions[session_id].status = "completed"
            => /\ session_id \in DOMAIN sessions'
               /\ sessions'[session_id].status = "completed"]_vars

\* C7: for every (date, repo_path), total_dev_hours, total_commits,
\* total_insertions and total_deletions never decrease.
C7_TotalsMonotone ==
    [][\A date \in Dates, repo_path \in RepoPaths :
        \A column \in {"total_dev_hours", "total_commits",
                       "total_insertions", "total_deletions"} :
            Total(daily_summaries', date, repo_path, column)
                >= Total(daily_summaries, date, repo_path, column)]_vars

\* C8: in every state, also while other upserts for the same key are
\* pending, the additive totals of every (date, repo_path) are the sum of
\* the deltas of all upserts executed for that key: no update is lost.
C8_NoLostUpdate ==
    \A date \in Dates, repo_path \in RepoPaths, column \in Additive :
        Total(daily_summaries, date, repo_path, column)
            = Total(mergeLog, date, repo_path, column)

\* C8 witness: two upserts for one key raced (one ran while the other was
\* pending), both have run and no request is left in flight.
C8_Witness ==
    /\ inflight = EmptyBag
    /\ \E e \in DOMAIN mergeLog :
        /\ e.concurrent
        /\ Total(mergeLog, e.date, e.repo_path, "total_sessions")
            + Total(mergeLog, e.date, e.repo_path, "total_commits") >= 2

\* C9: there is at most one daily_summaries row per (date, repo_path).
C9_OneRowPerKey ==
    \A a \in DOMAIN daily_summaries :
        /\ daily_summaries[a] = 1
        /\ \A b \in DOMAIN daily_summaries :
            (a.date = b.date /\ a.repo_path = b.repo_path) => a = b

\* C10: after a well-formed tool event for a session id has been handled,
\* that session exists, and every stored tool event refers to an existing
\* session.
C10_ToolEventCreatesSession ==
    [][\A session_id \in SessionIds, tool_name \in ToolNames,
          event_type \in EventTypes, timestamp \in Timestamps :
            Events_Insert(session_id, tool_name, event_type, timestamp)
            => /\ session_id \in DOMAIN sessions'
               /\ \A e \in DOMAIN tool_events' : e.session_id \in DOMAIN sessions']_vars

\* C11: total_tool_calls of a session never decreases.
C11_ToolCallCountMonotone ==
    [][\A session_id \in DOMAIN sessions :
            /\ session_id \in DOMAIN sessions'
            /\ sessions'[session_id].total_tool_calls
                 >= sessions[session_id].total_tool_calls]_vars

\* C12: a session that has an ended_at has started_at <= ended_at.
C12_StartBeforeEnd ==
    \A session_id \in DOMAIN sessions :
        sessions[session_id].ended_at # NULL
        => sessions[session_id].started_at <= sessions[session_id].ended_at

\* C13: a sessions/end request that closed an active session with
\* started_at = s and ended_at = e goes on to merge exactly one session and
\* (e - s) / 3600 hours into the summary of (day of s, repo_path of the
\* session), and that upsert changes no other total.
C13_CloseMergesItsOwnHours ==
    [][\A r \in DOMAIN inflight :
        /\ ( /\ r.kind = "end" /\ r.pc = "select"
             /\ r.closed_started_at # NULL /\ ~FalsyNum(r.ended_at)
             /\ SessionsEnd_Select(r) )
           => \E u \in DOMAIN inflight' :
                /\ u.kind = "end" /\ u.pc = "upsert"
                /\ u.session_id = r.session_id
                /\ u.date = DateOf(r.closed_started_at)
                /\ u.repo_path = r.closed_repo_path
                /\ u.hours = HoursOf(r.closed_started_at, r.ended_at)
        /\ ( /\ r.kind = "end" /\ r.pc = "upsert"
             /\ SessionsEnd_Upsert(r) )
           => \A date \in Dates, repo_path \in RepoPaths, column \in Additive :
                Total(daily_summaries', date, repo_path, column)
                  = Total(daily_summaries, date, repo_path, column)
                    + IF date = r.date /\ repo_path = r.repo_path
                      THEN CASE column = "total_sessions" -> 1
                             [] column = "total_dev_hours" -> r.hours
                             [] OTHER -> 0
                      ELSE 0]_vars

C15_CommitsPerHourIsCurrent ==
    \A row \in DOMAIN daily_summaries :
        SameReal(row.commits_per_hour,
                 CommitsPerHour(row.total_commits, row.total_dev_hours))

\* C19: a commit row that appears carries the project_api_key that
\* project_mappings holds for its repo_path at that moment (none if the
\* repository has no mapping), and the project_api_key of a row that is
\* already stored never changes.
C19_CommitKeyIsMappingAtRecording ==
    [][\A commit_hash \in DOMAIN commits' :
        IF commit_hash \in DOMAIN commits
        THEN commits'[commit_hash].project_api_key
               = commits[commit_hash].project_api_key
        ELSE commits'[commit_hash].project_api_key
               = MappingKey(commits'[commit_hash].repo_path)]_vars

\* The mapping row an upsert with these arguments writes.
GivenMapping(project_api_key, project_name, phase) ==
    [project_api_key |-> project_api_key, project_name |-> project_name,
     phase |-> IF FalsyText(phase) THEN "development" ELSE phase]

\* The columns of a mapping that an upsert gives.
Given(mapping) ==
    [project_api_key |-> mapping.project_api_key,
     project_name |-> mapping.project_name, phase |-> mapping.phase]

\* C20: project_mappings holds one mapping per repo_path; a mapping upsert
\* for a repo_path leaves it with the key, name and phase of that upsert
\* (phase "development" when none is given) and leaves every other
\* repo_path's mapping as it was; no step that is not an upsert for a
\* repo_path changes or removes its mapping.
C20_MappingIsLatestUpsert ==
    [][/\ \A repo_path \in Repos, project_api_key \in ApiKeys,
            project_name \in ProjectNames, phase \in Phases :
            ( \/ Mappings_Post(repo_path, project_api_key, project_name, phase)
              \/ LinkRepoToProject(repo_path, project_api_key, project_name, phase) )
            => /\ DOMAIN project_mappings' = DOMAIN project_mappings \cup {repo_path}
               /\ Given(project_mappings'[repo_path])
                    = GivenMapping(project_api_key, project_name, phase)
               /\ \A other \in DOMAIN project_mappings \ {repo_path} :
                    project_mappings'[other] = project_mappings[other]
       /\ \A repo_path \in DOMAIN project_mappings :
            \/ /\ repo_path \in DOMAIN project_mappings'
               /\ project_mappings'[repo_path] = project_mappings[repo_path]
            \/ \E project_api_key \in ApiKeys, project_name \in ProjectNames,
                  phase \in Phases :
                 \/ Mappings_Post(repo_path, project_api_key, project_name, phase)
                 \/ LinkRepoToProject(repo_path, project_api_key, project_name, phase)
      ]_vars

\* C20 witness: the mapping of r1 was replaced after a commit of r1 was
\* recorded under the earlier key, and now carries the later key, name p2
\* and phase beta.
C20_Witness ==
    /\ "r1" \in DOMAIN project_mappings
    /\ project_mappings["r1"].project_name = "p2"
    /\ project_mappings["r1"].phase = "beta"
    /\ \E commit_hash \in DOMAIN commits :
        /\ commits[commit_hash].repo_path = "r1"
        /\ commits[commit_hash].project_api_key \in ApiKeys
        /\ commits[commit_hash].project_api_key
             # project_mappings["r1"].project_api_key

\* The mean, in minutes, of the differences between successive commits of
\* repo_path whose timestamps fall on date, ordered by timestamp; no value
\* when the day has fewer than two commits.
MeanGapWithinDay(date, repo_path) ==
    LET day == OrderByTimestamp({h \in DOMAIN commits :
                                   /\ commits[h].repo_path = repo_path
                                   /\ DateOf(commits[h].timestamp) = date})
    IN  IF Len(day) < 2 THEN NullReal
        ELSE <<SumFn([i \in 1..(Len(day) - 1) |-> day[i + 1] - day[i]]),
               60 * (Len(day) - 1)>>

\* C16: the avg_commit_gap_minutes that generate_summary stores for
\* (date, repo_path) is the mean gap between successive commits of that
\* repository within that date; commits of other dates take part in no gap.
C16_AvgGapIsWithinDay ==
    [][\A date \in {0, 1} :
        generate_summary(date, "r1")
        => \A row \in DOMAIN daily_summaries' :
             (row.date = date /\ row.repo_path = "r1")
             => \/ /\ MeanGapWithinDay(date, "r1") = NullReal
                   /\ row.avg_commit_gap_minutes = NullReal
                \/ SameReal(row.avg_commit_gap_minutes,
                            MeanGapWithinDay(date, "r1"))]_vars

\* The tool events of one session and tool.
EventsOf(session_id, tool_name) ==
    {e \in DOMAIN tool_events :
        e.session_id = session_id /\ e.tool_name = tool_name}

\* Every event of the session is stored once and no two events of one tool
\* carry the same timestamp, so that the events of a tool have one order.
Ordered(session_id) ==
    \A tool_name \in LocalTools :
        \A e \in EventsOf(session_id, tool_name) :
            /\ tool_events[e] = 1
            /\ \A f \in EventsOf(session_id, tool_name) :
                 e # f => e.timestamp # f.timestamp

\* FIFO pairing of the events E of one tool: scanning by timestamp, an end
\* is paired with the earliest start not yet paired; an end that finds no
\* such start, and a start no end reaches, stay unpaired.
RECURSIVE FifoPairs(_, _)
FifoPairs(E, unmatched) ==
    IF E = {} THEN {}
    ELSE LET e == CHOOSE e \in E : \A f \in E : e.timestamp <= f.timestamp
         IN  IF e.event_type = "start"
             THEN FifoPairs(E \ {e}, Append(unmatched, e))
             ELSE IF unmatched = <<>>
             THEN FifoPairs(E \ {e}, unmatched)
             ELSE {<<Head(unmatched), e>>} \cup FifoPairs(E \ {e}, Tail(unmatched))

PairsOf(session_id) ==
    UNION {FifoPairs(EventsOf(session_id, tool_name), <<>>) : tool_name \in LocalTools}

MatchedEvents(session_id) ==
    {p[1] : p \in PairsOf(session_id)} \cup {p[2] : p \in PairsOf(session_id)}

SessionsWithEvents == {e.session_id : e \in DOMAIN tool_events}

\* C17: in a session whose starts and ends all pair up FIFO, the active
\* coding time is the sum of (end - start) over the FIFO pairs, each start
\* and each end counted in one pair only.
C17_ActiveTimeIsFifo ==
    \A session_id \in SessionsWithEvents :
        ( /\ Ordered(session_id)
          /\ \A tool_name \in LocalTools :
               EventsOf(session_id, tool_name) \subseteq MatchedEvents(session_id) )
        => v_active_coding_time(tool_events, session_id)
             = SumFn([p \in PairsOf(session_id) |-> p[2].timestamp - p[1].timestamp])

\* C18: the starts and ends that FIFO pairing leaves unpaired contribute
\* nothing: the active coding time of a session is what it is without them.
C18_UnmatchedContributeZero ==
    \A session_id \in SessionsWithEvents :
        Ordered(session_id)
        => v_active_coding_time(tool_events, session_id)
             = v_active_coding_time(
                   [e \in MatchedEvents(session_id) |-> tool_events[e]], session_id)

\* C21: a stored commit row never changes and never disappears, whatever
\* later requests carry its hash.
C21_StoredCommitIsFrozen ==
    [][\A commit_hash \in DOMAIN commits :
        /\ commit_hash \in DOMAIN commits'
        /\ commits'[commit_hash] = commits[commit_hash]]_vars

\* C21 witness: a second request with a stored hash, but another
\* repo_path, timestamp and stats, has run to its end, and the row is the
\* first one.
C21_Witness ==
    /\ inflight = EmptyBag
    /\ \E commit_hash \in DOMAIN commits :
        \E e \in DOMAIN mergeLog :
            /\ e.source = "commit"
            /\ e.id = commit_hash
            /\ e.repo_path # commits[commit_hash].repo_path
            /\ e.date # DateOf(commits[commit_hash].timestamp)
            /\ e.total_insertions # commits[commit_hash].insertions

\* What a caller reads in a response: the duplicate flag is set when the
\* body has an `accepted` field that is false.
AlreadyApplied(response) ==
    "accepted" \in DOMAIN response /\ response.accepted = FALSE

\* C22: the response of a commits request flags a duplicate exactly when its
\* INSERT found the hash already stored.
C22_DuplicateIsFlagged ==
    [][\A r \in DOMAIN inflight :
        ( /\ r.kind = "commit" /\ r.pc = "insert"
          /\ Commits_Insert(r)
          /\ [r EXCEPT !.pc = "upsert"] \in DOMAIN inflight' )
        => ( AlreadyApplied(Commits_Response([r EXCEPT !.pc = "upsert"]))
               <=> r.commit_hash \in DOMAIN commits )]_vars

\* C23: a sessions/start, sessions/end, events or commits request that
\* lacks a field its kind requires (session_id, repo_path or timestamp)
\* changes no table and starts no work.
C23_MalformedIsRejected ==
    [][/\ \A session_id \in SessionIds \cup {NullText},
            repo_path \in Repos \cup {NullText},
            project_api_key \in StartKeys, started_at \in Timestamps \cup {NULL} :
            ( /\ FalsyText(session_id) \/ FalsyText(repo_path) \/ FalsyNum(started_at)
              /\ SessionsStart(session_id, repo_path, project_api_key, started_at) )
            => UNCHANGED <<tables, inflight>>
       /\ \A session_id \in SessionIds \cup {NullText},
            ended_at \in Timestamps \cup {NULL}, total_tool_calls \in EndCounts :
            ( /\ FalsyText(session_id) \/ FalsyNum(ended_at)
              /\ SessionsEnd_Update(session_id, ended_at, total_tool_calls) )
            => UNCHANGED <<tables, inflight>>
       /\ \A session_id \in SessionIds \cup {NullText}, tool_name \in ToolNames,
            event_type \in EventTypes, timestamp \in Timestamps \cup {NULL} :
            ( /\ FalsyText(session_id) \/ FalsyNum(timestamp)
              /\ Events_Insert(session_id, tool_name, event_type, timestamp) )
            => UNCHANGED <<tables, inflight>>
       /\ \A commit_hash \in Hashes, repo_path \in Repos \cup {NullText},
            session_id \in SessionIds \cup {NullText},
            timestamp \in Timestamps \cup {NULL}, stat \in Stats :
            ( /\ FalsyText(repo_path) \/ FalsyNum(timestamp)
              /\ Commits_SelectMapping(commit_hash, repo_path, session_id,
                                       timestamp, stat[1], stat[2]) )
            => UNCHANGED <<tables, inflight>>
      ]_vars

\* C24: no request leaves half of its effect: a stored commit row has its
\* summary merge done or still to come from a request in flight, and a
\* session closed with both timestamps has its hours merged or a close
\* request in flight.
C24_AllOrNothing ==
    /\ \A commit_hash \in DOMAIN commits :
        \/ MergesOf("commit", commit_hash) >= 1
        \/ \E r \in DOMAIN inflight :
             r.kind = "commit" /\ r.pc = "upsert" /\ r.commit_hash = commit_hash
    /\ \A session_id \in DOMAIN sessions :
        ( /\ sessions[session_id].status = "completed"
          /\ ~FalsyNum(sessions[session_id].started_at)
          /\ ~FalsyNum(sessions[session_id].ended_at) )
        => \/ MergesOf("session", session_id) >= 1
           \/ \E r \in DOMAIN inflight :
                r.kind = "end" /\ r.session_id = session_id

\* C25: at most one session exists per (repo_path, day of started_at).
C25_OneSessionPerRepoAndDay ==
    \A a \in DOMAIN sessions, b \in DOMAIN sessions :
        ( /\ sessions[a].repo_path = sessions[b].repo_path
          /\ DateOf(sessions[a].started_at) = DateOf(sessions[b].started_at) )
        => a = b

\* C26: a tool event (session_id, tool_name, event_type, timestamp) is
\* stored once, however often it is delivered.
C26_ToolEventStoredOnce ==
    \A e \in DOMAIN tool_events : tool_events[e] = 1

\* The requests whose next statement is their summary upsert.
PendingUpserts == {r \in DOMAIN inflight : r.pc = "upsert"}

\* daily_summaries after the upsert of the pending request r is applied to ds.
ApplyUpsert(ds, r) ==
    IF r.kind = "end"
    THEN UpsertSessionSummary(ds, r.date, r.repo_path, r.project_api_key, r.hours)
    ELSE UpsertCommitSummary(ds, DateOf(r.timestamp), r.repo_path, r.project_api_key,
                             OrDefault(r.insertions, 0), OrDefault(r.deletions, 0))

\* C27: whichever of two pending merges (session close or commit) is
\* applied first, the additive totals of every (date, repo_path) end up the
\* same.
C27_MergesCommute ==
    \A a \in PendingUpserts, b \in PendingUpserts :
        \A date \in Dates, repo_path \in RepoPaths, column \in Additive :
            Total(ApplyUpsert(ApplyUpsert(daily_summaries, a), b),
                  date, repo_path, column)
              = Total(ApplyUpsert(ApplyUpsert(daily_summaries, b), a),
                      date, repo_path, column)

\* C27 witness: a session close and a commit are both about to merge into
\* the same (date, repo_path).
C27_Witness ==
    \E a \in PendingUpserts, b \in PendingUpserts :
        /\ a.kind = "end" /\ b.kind = "commit"
        /\ a.hours > 0
        /\ TargetKey(a) = TargetKey(b)

C30_WritesNeedTheToken ==
    [][\A authHeader \in AuthHeaders :
        (authHeader.scheme # "Bearer " \/ authHeader.token # API_TOKEN)
        => /\ authMiddleware(authHeader)
                = IF authHeader.scheme # "Bearer " THEN 401 ELSE 403
           /\ ( \/ PostSessionsStart(authHeader)
                \/ PostSessionsEnd(authHeader)
                \/ PostEvents(authHeader)
                \/ PostCommits(authHeader)
                \/ PostMappings(authHeader)
                \/ PostMcp(authHeader) )
              => UNCHANGED <<tables, inflight>>]_vars

\* C30 witness: every request so far was answered without any effect, and
\* the tables are as they were created.
C30_Witness ==
    /\ nreq = MaxRequests
    /\ inflight = EmptyBag
    /\ mergeLog = EmptyBag
    /\ sessions = <<>> /\ commits = <<>> /\ project_mappings = <<>>
    /\ tool_events = EmptyBag /\ daily_summaries = EmptyBag

\* ------------------------------------------------------------------------
\* The read operations of the Worker.  A request is answered from SELECT
\* statements alone; what it returns is an operator of the tables.  The
\* `days` window of a read is taken wide enough to hold every stored date.
\* ------------------------------------------------------------------------

\* `x LEFT JOIN project_mappings pm ON x.repo_path = pm.repo_path`: the
\* column of the mapping row of the repository, NULL when there is none.
JoinedMapping(repo_path, column) ==
    IF repo_path \in DOMAIN project_mappings
    THEN project_mappings[repo_path][column]
    ELSE NullText

\* COALESCE(x, d) for a text x
Coalesce(x, d) == IF x = NullText THEN d ELSE x

\* CASE WHEN pm.phase IN ('development', 'beta') THEN 'Yes' ELSE 'No' END
Capitalizable(phase) ==
    IF phase \in {"development", "beta"} THEN "Yes" ELSE "No"

\* GET /api/data, "Get recent commits": the rows of commits, each with the
\* project_name of the mapping its repo_path has when the query runs.
recentCommits ==
    {[hash |-> h, repo_path |-> commits[h].repo_path,
      timestamp |-> commits[h].timestamp,
      additions |-> commits[h].insertions, deletions |-> commits[h].deletions,
      project_name |-> JoinedMapping(commits[h].repo_path, "project_name")] :
        h \in DOMAIN commits}

\* GET /api/export/csv: one line per row of daily_summaries.
ExportCsvRow(ds) ==
    [date |-> ds.date,
     project_name |-> Coalesce(JoinedMapping(ds.repo_path, "project_name"), "Unlinked"),
     phase |-> Coalesce(JoinedMapping(ds.repo_path, "phase"), "unknown"),
     hours |-> ds.total_dev_hours, commits |-> ds.total_commits,
     additions |-> ds.total_insertions, deletions |-> ds.total_deletions,
     capitalizable |-> Capitalizable(JoinedMapping(ds.repo_path, "phase"))]

ExportCsv ==
    BagUpdate(daily_summaries, [ds \in DOMAIN daily_summaries |-> ExportCsvRow(ds)])

\* MCP tool generate_summary: the entries of one date.
SummaryEntry(ds) ==
    [date |-> ds.date,
     project |-> Coalesce(JoinedMapping(ds.repo_path, "project_name"), "Unlinked"),
     phase |-> JoinedMapping(ds.repo_path, "phase"),
     hours |-> ds.total_dev_hours, commits |-> ds.total_commits,
     additions |-> ds.total_insertions, deletions |-> ds.total_deletions,
     capitalizable |-> Capitalizable(JoinedMapping(ds.repo_path, "phase"))]

SummaryEntries(date) ==
    LET rows == {ds \in DOMAIN daily_summaries : ds.date = date}
    IN  BagUpdate([ds \in rows |-> daily_summaries[ds]],
                  [ds \in rows |-> SummaryEntry(ds)])

\* GET /api/mappings: SELECT * FROM project_mappings
GetMappings ==
    /\ nreq < MaxRequests
    /\ nreq' = nreq + 1
    /\ UNCHANGED <<tables, inflight, mergeLog, fkEnforced>>

\* GET /api/export/csv
GetExportCsv ==
    /\ nreq < MaxRequests
    /\ nreq' = nreq + 1
    /\ UNCHANGED <<tables, inflight, mergeLog, fkEnforced>>

\* GET /api/stats: one SELECT of sums over daily_summaries
GetStats ==
    /\ nreq < MaxRequests
    /\ nreq' = nreq + 1
    /\ UNCHANGED <<tables, inflight, mergeLog, fkEnforced>>

\* MCP tool get_dev_stats
McpGetDevStats ==
    /\ nreq < MaxRequests
    /\ nreq' = nreq + 1
    /\ UNCHANGED <<tables, inflight, mergeLog, fkEnforced>>

\* MCP tool get_recent_commits
McpGetRecentCommits ==
    /\ nreq < MaxRequests
    /\ nreq' = nreq + 1
    /\ UNCHANGED <<tables, inflight, mergeLog, fkEnforced>>

\* MCP tool get_linked_projects
McpGetLinkedProjects ==
    /\ nreq < MaxRequests
    /\ nreq' = nreq + 1
    /\ UNCHANGED <<tables, inflight, mergeLog, fkEnforced>>

\* Mutation of McpGenerateSummary: the tool stores a row for the date it
\* reports on, as generate_summary of the local tracker does.
McpGenerateSummary_Stores(date) ==
    /\ nreq < MaxRequests
    /\ nreq' = nreq + 1
    /\ daily_summaries' = daily_summaries (+)
           SetToBag({SummaryRow(date, "r1", NullText, 0, 0, 0, 0, 0)})
    /\ UNCHANGED <<sessions, tool_events, commits, project_mappings,
                   inflight, mergeLog, fkEnforced>>

\* MCP tool generate_summary: one SELECT over daily_summaries and
\* project_mappings; nothing is stored.
McpGenerateSummary(date) ==
    /\ nreq < MaxRequests
    /\ nreq' = nreq + 1
    /\ UNCHANGED <<tables, inflight, mergeLog, fkEnforced>>

\* A read operation is carried out.
ReadOperation ==
    \/ GetData
    \/ GetStats
    \/ GetExportCsv
    \/ GetMappings
    \/ McpGetDevStats
    \/ McpGetRecentCommits
    \/ McpGetLinkedProjects
    \/ \E date \in {0, 1} : McpGenerateSummary(date)

\* Phases a mapping is given in the read model: one that is capitalizable
\* and one that is not.
ReadPhases == {"beta", "maintenance"}

\* A session with a tool event, one commit and the mappings of its
\* repository are written while the read operations run.
NextReads ==
    \/ ReceiveSessionsStart({"s1"}, {"r1"}, {SecondsPerHour})
    \/ ReceiveEvent({"s1"}, {"start"}, {SecondsPerHour})
    \/ StepEventsUpdateCount
    \/ ReceiveCommit({"h1"}, {"r1"}, {NullText}, {SecondsPerHour}, {<<2, 1>>})
    \/ StepCommitsInsert
    \/ StepCommitsUpsert
    \/ ReceiveMapping({"r1"}, {"k1"}, ProjectNames, ReadPhases)
    \/ CallLinkRepoToProject({"r1"}, {"k1"}, {"p1"}, {NullText})
    \/ ReadOperation

SpecReads == Init /\ [][NextReads]_vars

\* C31: a read operation (GET /api/data, /api/stats, /api/export/csv,
\* /api/mappings, MCP get_dev_stats, get_recent_commits, get_linked_projects,
\* generate_summary) leaves sessions, tool events, commits, project mappings
\* and daily summaries as they were.
C31_ReadsChangeNothing ==
    [][ReadOperation => UNCHANGED tables]_vars

\* One commit was recorded and merged, and the only other request received
\* was a read: nothing else is stored and nothing was refused.
C31_Witness ==
    /\ nreq = 2
    /\ inflight = EmptyBag
    /\ "h1" \in DOMAIN commits
    /\ BagCardinality(daily_summaries) = 1
    /\ sessions = <<>>
    /\ tool_events = EmptyBag
    /\ project_mappings = <<>>
    /\ ~fkEnforced

\* C32: stored facts are never removed.  Across every step the stored
\* session ids and commit hashes only grow, and every stored tool event
\* stays as it is, as many times as it was stored.
C32_StoredFactsStay ==
    [][/\ DOMAIN sessions \subseteq DOMAIN sessions'
       /\ DOMAIN commits \subseteq DOMAIN commits'
       /\ tool_events \sqsubseteq tool_events']_vars

\* A session with a stored tool event was started again: the foreign key
\* held when the event was inserted, its tool call was counted, and the
\* replaced row counts none.
C32_Witness ==
    /\ fkEnforced
    /\ inflight = EmptyBag
    /\ \E e \in DOMAIN tool_events : e.session_id = "s1" /\ e.event_type = "start"
    /\ "s1" \in DOMAIN sessions
    /\ sessions["s1"].status = "active"
    /\ sessions["s1"].total_tool_calls = 0

\* C33: a mapping upsert leaves the attribution of what was ingested before
\* it alone.  Across a step that changes project_mappings, the project name
\* the dashboard returns for every stored commit, and the project name,
\* phase and capitalizable flag the CSV export and the summary tool return
\* for every stored daily summary, are what they were before the step.
C33_AttributionIsFrozen ==
    [][project_mappings' # project_mappings =>
          /\ recentCommits \subseteq recentCommits'
          /\ ExportCsv \sqsubseteq ExportCsv'
          /\ \A date \in {0, 1} : SummaryEntries(date) \sqsubseteq SummaryEntries(date)']_vars

\* ------------------------------------------------------------------------
\* One session whose start and end are each delivered once, in either
\* order.  The Worker answers every request it has accepted: a handler that
\* awaits a statement is resumed, so the steps of a request in flight are
\* taken under weak fairness.  Nothing obliges a client to send a request.
\* ------------------------------------------------------------------------

\* The start of s1 has been delivered: its row is stored from then on.
StartDelivered == "s1" \in DOMAIN sessions

\* The end of s1 has been delivered: it is the request that is not the start.
EndDelivered == nreq = (IF StartDelivered THEN 2 ELSE 1)

DeliverStart ==
    /\ ~StartDelivered
    /\ ReceiveSessionsStart({"s1"}, Repos, Timestamps)

DeliverEnd ==
    /\ ~EndDelivered
    /\ ReceiveSessionsEnd({"s1"}, Timestamps, EndCounts)

NextDelivery ==
    \/ DeliverStart
    \/ DeliverEnd
    \/ StepSessionsEndSelect
    \/ StepSessionsEndUpsert

SpecDelivery ==
    /\ Init
    /\ [][NextDelivery]_vars
    /\ WF_vars(StepSessionsEndSelect)
    /\ WF_vars(StepSessionsEndUpsert)

\* C34: once the start and the end of a session have both been delivered,
\* in either order, the session eventually is completed with ended_at set
\* and its hours have been merged into the daily summary exactly once.
C34_StartAndEndComplete ==
    (StartDelivered /\ EndDelivered)
        ~> /\ StartDelivered
           /\ sessions["s1"].status = "completed"
           /\ sessions["s1"].ended_at # NULL
           /\ MergesOf("session", "s1") = 1

\* C35: in every reachable state a session is completed exactly when its
\* ended_at is set, and active exactly when its ended_at is unset.
C35_StatusMatchesEndedAt ==
    \A session_id \in DOMAIN sessions :
        /\ sessions[session_id].status = "completed"
               <=> sessions[session_id].ended_at # NULL
        /\ sessions[session_id].status = "active"
               <=> sessions[session_id].ended_at = NULL

\* The stored commits of a repository whose timestamp falls on a date, and
\* the sum of one of their columns.
CommitsOn(date, repo_path) ==
    {h \in DOMAIN commits : /\ commits[h].repo_path = repo_path
                            /\ DateOf(commits[h].timestamp) = date}

CommitSum(date, repo_path, column) ==
    SumFn([h \in CommitsOn(date, repo_path) |-> commits[h][column]])

HasSummary(date, repo_path) ==
    \E ds \in DOMAIN daily_summaries : ds.date = date /\ ds.repo_path = repo_path

\* The commit totals reported for (date, repo_path) are the count and the
\* sums of the stored commits of that repository and date.
SummaryMatchesCommits(date, repo_path) ==
    /\ Total(daily_summaries, date, repo_path, "total_commits")
           = Cardinality(CommitsOn(date, repo_path))
    /\ Total(daily_summaries, date, repo_path, "total_insertions")
           = CommitSum(date, repo_path, "insertions")
    /\ Total(daily_summaries, date, repo_path, "total_deletions")
           = CommitSum(date, repo_path, "deletions")

\* C36: whenever no request is in flight, every (date, repo_path) that has
\* a daily summary reports as commits, insertions and deletions the count
\* and the sums of the stored commits of that repository on that date.
C36_SummaryEqualsStoredCommits ==
    inflight = EmptyBag =>
        \A date \in Dates, repo_path \in RepoPaths :
            HasSummary(date, repo_path) => SummaryMatchesCommits(date, repo_path)

\* C37: a tool event of type start raises the total_tool_calls of its
\* session by exactly one, whatever other requests are in flight: the step
\* that finishes the request of a start event, for a session that is
\* stored, adds one to the count that session has at that moment and
\* changes nothing else of it.  The step that stores an event of type end
\* leaves every session as it is and leaves no count to be done.
C37_StartCountsOnce ==
    [][/\ \A r \in DOMAIN inflight :
            ( /\ r.kind = "event"
              /\ inflight' = Leave(r)
              /\ r.session_id \in DOMAIN sessions )
            => sessions' = [sessions EXCEPT
                   ![r.session_id].total_tool_calls = @ + 1]
       /\ \A e \in DOMAIN tool_events' :
            ( /\ e.event_type = "end"
              /\ tool_events' = tool_events (+) SetToBag({e}) )
            => sessions' = sessions /\ inflight' = inflight]_vars

\* Two start events were stored for a session that existed when each was
\* inserted, and both have been counted.
C37_Witness ==
    /\ fkEnforced
    /\ inflight = EmptyBag
    /\ "s1" \in DOMAIN sessions
    /\ sessions["s1"].total_tool_calls = 2
    /\ \E e \in DOMAIN tool_events :
          e.session_id = "s1" /\ e.event_type = "start" /\ tool_events[e] = 2

\* C38: after the local generate_summary(date, repo_path) has run, a row of
\* daily_summaries for (date, repo_path) exists and its commits, insertions
\* and deletions are the count and the sums of the stored commits of that
\* repository on that date, whether or not a session started there that day.
C38_SummaryRowIsWritten ==
    [][\A date \in {0, 1} :
          generate_summary(date, "r1") =>
              /\ HasSummary(date, "r1")'
              /\ SummaryMatchesCommits(date, "r1")']_vars

====
